---- MODULE Spec2Model ----
(***************************************************************************)
(* Model of the exchange connectivity engine:                              *)
(*   - FuturesWebSockets (src/src/binance_f/websockets.rs): connect,       *)
(*     disconnect and the cooperative event_loop;                          *)
(*   - Client (src/src/binance/client.rs): request construction, signing,  *)
(*     headers and the response classification of handler.                 *)
(***************************************************************************)
EXTENDS Integers, Sequences, FiniteSets, TLC

\* ---------------------------------------------------------------- bounds
\* Total number of stream items the peer delivers in one behaviour.
MaxFrames == 2
\* Total number of successful handshakes in one behaviour.
MaxConnects == 2

\* ------------------------------------------------------- websocket frames
\* Payloads of text frames: empty, two payloads that decode, one that does not.
TextPayloads == {"", "e1", "e2", "bad"}
\* Payloads of ping frames.
PingPayloads == {"", "k"}

\* awc::ws::Frame as matched by event_loop.
Frames ==
    [type : {"Text"}, data : TextPayloads]
      \cup [type : {"Ping"}, data : PingPayloads]
      \cup [type : {"Pong", "Binary", "Continuation", "Close"}, data : {""}]

\* Items of the framed stream: Some(Ok(frame)) or Some(Err(e)).
StreamItems == Frames \cup {[type |-> "Error", data |-> ""]}

\* serde_json::from_slice::<WE>(&msg): the decoded event or a decode error.
from_slice(msg) ==
    IF msg = "e1" THEN [ok |-> TRUE, event |-> "E1"]
    ELSE IF msg = "e2" THEN [ok |-> TRUE, event |-> "E2"]
    ELSE [ok |-> FALSE, event |-> "none"]

\* Message::Pong(Bytes::from_static(b"")): the pong event_loop sends for a ping.
PongReply(ping) == [type |-> "Pong", data |-> ""]

VARIABLES
    socket,     \* self.socket: <<>> is None, <<conn>> is Some(conn)
    running,    \* the caller's AtomicBool
    pc,         \* position of event_loop: "idle", "check", "body", "next", "yield"
    result,     \* what the last event_loop call returned
    chan,       \* events buffered in the local_channel, not yet received
    rxAlive,    \* the Receiver half of the channel has not been dropped
    received,   \* stream items this event_loop call took from socket.next()
    pushed,     \* events this event_loop call pushed with sender.send
    afterStop,  \* stream items taken from the socket while running was false
    nArrived,   \* stream items delivered by the peer so far
    nConnects,  \* successful handshakes so far
    callResult, \* what the last connect or disconnect call returned
    client,     \* the REST Client: api_key, secret_key, host
    sent,       \* the last HTTP request the Client put on the wire
    response,   \* the last HTTP response the Client got
    outcome     \* the Result<String> of the last REST call

wsvars == <<socket, running, pc, result, chan, rxAlive, received, pushed,
            afterStop, nArrived, nConnects, callResult>>
restvars == <<client, sent, response, outcome>>
vars == <<socket, running, pc, result, chan, rxAlive, received, pushed,
          afterStop, nArrived, nConnects, callResult, client, sent, response,
          outcome>>

\* A freshly established connection (the answer of the handshake).
NewConn(id) ==
    [id |-> id, inbound |-> <<>>, eof |-> FALSE, out |-> <<>>, closed |-> FALSE]

NoResult == [status |-> "None", cause |-> "none"]

\* ------------------------------------------------------------------ Client
\* api_key values: none, a well-formed key, a key with a line feed in it
\* (not a legal header value).
ApiKeys == {"", "KEY", "K<LF>Y"}
SecretKeys == {"", "s1", "s2"}
Endpoints == {"/api/v3/order", "/api/v3/userDataStream"}
\* request strings / listen keys handed in by the callers
Requests == {"", "symbol=A", "symbol=B"}
ListenKeys == {"lk1", "lk2"}

\* error_messages::INVALID_PRICE
INVALID_PRICE == "Invalid price."
ErrorCodes == {-1013, -1125, -2010}
ErrorMsgs == {INVALID_PRICE, "Order would trigger immediately."}

\* Response bodies: UTF-8 text that is no error object, bytes that are not
\* UTF-8, a body whose transfer breaks off, and {code, msg} error objects.
NoBody == [kind |-> "none", code |-> 0, msg |-> ""]
Bodies ==
    [kind : {"text", "nonutf8", "truncated"}, code : {0}, msg : {"payload"}]
      \cup [kind : {"errjson"}, code : ErrorCodes, msg : ErrorMsgs]
Statuses == {200, 201, 299, 400, 401, 404, 500, 503}
Responses == [status : Statuses, body : Bodies]

\* HMAC::mac(input, k): a keyed function of exactly its two arguments.
HMAC_mac(input, k) == <<"hmac-sha256", input, k>>
\* hex::encode
hex_encode(mac) == <<"hex">> \o mac
NoSignature == <<>>

\* HeaderValue::from_str: fails on control characters.
HeaderValue_from_str(v) == [ok |-> v # "K<LF>Y", value |-> v]

Err(kind) ==
    [kind |-> kind, body |-> NoBody, code |-> 0, msg |-> "", status |-> 0]

\* Client::new: credentials and host are fixed at construction. The streaming
\* session next to it is as constructed and stays so.
RestInit ==
    /\ socket = <<>>
    /\ running = TRUE
    /\ pc = "idle"
    /\ result = NoResult
    /\ chan = <<>>
    /\ rxAlive = TRUE
    /\ received = <<>>
    /\ pushed = <<>>
    /\ afterStop = 0
    /\ nArrived = 0
    /\ nConnects = 0
    /\ callResult = "none"
    /\ client \in [api_key : ApiKeys, secret_key : SecretKeys, host : {"H"}]
    /\ sent = <<>>
    /\ response = <<>>
    /\ outcome = <<>>

\* sign_request that signs the request string extended by a value taken from
\* the client's state at the time of the call.
sign_request_Timestamped(endpoint, request) ==
    LET stamp == IF response = <<>> THEN "&timestamp=0" ELSE "&timestamp=1"
        signature == hex_encode(HMAC_mac(request \o stamp, client.secret_key))
    IN  [host |-> client.host, endpoint |-> endpoint, query |-> TRUE,
         request |-> request, signature |-> signature]

\* sign_request: host, endpoint, '?', request, '&signature=', hex MAC of request
sign_request(endpoint, request) ==
    LET signature == hex_encode(HMAC_mac(request, client.secret_key))
    IN  [host |-> client.host, endpoint |-> endpoint, query |-> TRUE,
         request |-> request, signature |-> signature]

\* format!("{}{}", self.host, endpoint), plus "?request" in get when non-empty
plain_url(endpoint, request) ==
    [host |-> client.host, endpoint |-> endpoint, query |-> request # "",
     request |-> request, signature |-> NoSignature]

\* build_headers that attaches the API key only together with the content type.
build_headers_KeyWhenSigned(content_type) ==
    LET key == HeaderValue_from_str(client.api_key)
    IN  [ok |-> key.ok,
         headers |->
            {<<"user-agent", "binance-rs">>}
              \cup (IF content_type
                    THEN {<<"content-type", "application/x-www-form-urlencoded">>,
                          <<"x-mbx-apikey", key.value>>}
                    ELSE {})]

\* build_headers: user-agent always, content-type on demand, x-mbx-apikey always
build_headers(content_type) ==
    LET key == HeaderValue_from_str(client.api_key)
    IN  [ok |-> key.ok,
         headers |->
            {<<"user-agent", "binance-rs">>}
              \cup (IF content_type
                    THEN {<<"content-type", "application/x-www-form-urlencoded">>}
                    ELSE {})
              \cup {<<"x-mbx-apikey", key.value>>}]

\* handle_content_error that matches -1013 without looking at the message.
handle_content_error_CodeOnly(error) ==
    IF error.code = -1013
    THEN [Err("InvalidPrice") EXCEPT !.code = 0]
    ELSE IF error.code = -1125
    THEN [Err("InvalidListenKey") EXCEPT !.msg = error.msg]
    ELSE [Err("BinanceError") EXCEPT !.code = error.code, !.msg = error.msg]

\* handle_content_error
handle_content_error(error) ==
    IF error.code = -1013 /\ error.msg = INVALID_PRICE
    THEN [Err("InvalidPrice") EXCEPT !.code = 0]
    ELSE IF error.code = -1125
    THEN [Err("InvalidListenKey") EXCEPT !.msg = error.msg]
    ELSE [Err("BinanceError") EXCEPT !.code = error.code, !.msg = error.msg]

\* handler that unwraps the parse of the 400 body instead of propagating it.
handler_Unwrap(resp) ==
    CASE resp.status = 200 ->
           IF resp.body.kind = "truncated" THEN Err("ReqwestError")
           ELSE IF resp.body.kind = "nonutf8" THEN Err("Utf8Error")
           ELSE [Err("Ok") EXCEPT !.body = resp.body]
      [] resp.status = 500 -> Err("InternalServerError")
      [] resp.status = 503 -> Err("ServiceUnavailable")
      [] resp.status = 401 -> Err("Unauthorized")
      [] resp.status = 400 ->
           IF resp.body.kind = "errjson"
           THEN handle_content_error([code |-> resp.body.code,
                                      msg |-> resp.body.msg])
           ELSE Err("Panic")
      [] OTHER -> [Err("Msg") EXCEPT !.status = resp.status]

\* Client::handler
handler(resp) ==
    CASE resp.status = 200 ->
           IF resp.body.kind = "truncated" THEN Err("ReqwestError")
           ELSE IF resp.body.kind = "nonutf8" THEN Err("Utf8Error")
           ELSE [Err("Ok") EXCEPT !.body = resp.body]
      [] resp.status = 500 -> Err("InternalServerError")
      [] resp.status = 503 -> Err("ServiceUnavailable")
      [] resp.status = 401 -> Err("Unauthorized")
      [] resp.status = 400 ->
           IF resp.body.kind = "errjson"
           THEN handle_content_error([code |-> resp.body.code,
                                      msg |-> resp.body.msg])
           ELSE Err("ReqwestError")
      [] OTHER -> [Err("Msg") EXCEPT !.status = resp.status]

\* No REST call is between its send and its response.
Ready == sent = <<>> \/ outcome # <<>>

\* .send() of a built request: the request goes on the wire.
Issue(op, verb, url, headers, body) ==
    /\ sent' = <<[op |-> op, verb |-> verb, url |-> url, headers |-> headers,
                  body |-> body]>>
    /\ response' = <<>>
    /\ outcome' = <<>>

\* self.build_headers(..)? failed: the call returns before anything is sent.
HeaderFailure ==
    /\ sent' = <<>>
    /\ response' = <<>>
    /\ outcome' = <<Err("InvalidHeaderValue")>>

\* get_signed
get_signed ==
    /\ Ready
    /\ \E endpoint \in Endpoints, request \in Requests :
         LET h == build_headers(TRUE)
         IN  IF h.ok
             THEN Issue("get_signed", "GET", sign_request(endpoint, request),
                        h.headers, "")
             ELSE HeaderFailure
    /\ UNCHANGED client
    /\ UNCHANGED wsvars

\* post_signed
post_signed ==
    /\ Ready
    /\ \E endpoint \in Endpoints, request \in Requests :
         LET h == build_headers(TRUE)
         IN  IF h.ok
             THEN Issue("post_signed", "POST", sign_request(endpoint, request),
                        h.headers, "")
             ELSE HeaderFailure
    /\ UNCHANGED client
    /\ UNCHANGED wsvars

\* delete_signed
delete_signed ==
    /\ Ready
    /\ \E endpoint \in Endpoints, request \in Requests :
         LET h == build_headers(TRUE)
         IN  IF h.ok
             THEN Issue("delete_signed", "DELETE",
                        sign_request(endpoint, request), h.headers, "")
             ELSE HeaderFailure
    /\ UNCHANGED client
    /\ UNCHANGED wsvars

\* get: reqwest::get(url), no headers of the Client are attached
get ==
    /\ Ready
    /\ \E endpoint \in Endpoints, request \in Requests :
         Issue("get", "GET", plain_url(endpoint, request), {}, "")
    /\ UNCHANGED client
    /\ UNCHANGED wsvars

\* post
post ==
    /\ Ready
    /\ \E endpoint \in Endpoints :
         LET h == build_headers(FALSE)
         IN  IF h.ok
             THEN Issue("post", "POST", plain_url(endpoint, ""), h.headers, "")
             ELSE HeaderFailure
    /\ UNCHANGED client
    /\ UNCHANGED wsvars

\* put: the listen key travels in the body
put ==
    /\ Ready
    /\ \E endpoint \in Endpoints, listen_key \in ListenKeys :
         LET h == build_headers(FALSE)
         IN  IF h.ok
             THEN Issue("put", "PUT", plain_url(endpoint, ""), h.headers,
                        "listenKey=" \o listen_key)
             ELSE HeaderFailure
    /\ UNCHANGED client
    /\ UNCHANGED wsvars

\* delete: the listen key travels in the body
delete ==
    /\ Ready
    /\ \E endpoint \in Endpoints, listen_key \in ListenKeys :
         LET h == build_headers(FALSE)
         IN  IF h.ok
             THEN Issue("delete", "DELETE", plain_url(endpoint, ""), h.headers,
                        "listenKey=" \o listen_key)
             ELSE HeaderFailure
    /\ UNCHANGED client
    /\ UNCHANGED wsvars

\* .send().await? fails (DNS, connect, timeout): the call returns the error.
TransportFailure ==
    /\ ~Ready
    /\ outcome' = <<Err("ReqwestError")>>
    /\ UNCHANGED <<client, sent, response>>
    /\ UNCHANGED wsvars

\* .send().await? yields a response and self.handler(response) classifies it.
Respond ==
    /\ ~Ready
    /\ \E resp \in Responses :
         /\ response' = <<resp>>
         /\ outcome' = <<handler(resp)>>
    /\ UNCHANGED <<client, sent>>
    /\ UNCHANGED wsvars

RestNext ==
    \/ get_signed
    \/ post_signed
    \/ delete_signed
    \/ get
    \/ post
    \/ put
    \/ delete
    \/ TransportFailure
    \/ Respond

\* ----------------------------------------------------- FuturesWebSockets
\* new_with_options: no connection; the caller's flag may hold either value.
\* The REST Client next to it is built without credentials and is idle.
WsInit ==
    /\ socket = <<>>
    /\ running \in BOOLEAN
    /\ pc = "idle"
    /\ result = NoResult
    /\ chan = <<>>
    /\ rxAlive = TRUE
    /\ received = <<>>
    /\ pushed = <<>>
    /\ afterStop = 0
    /\ nArrived = 0
    /\ nConnects = 0
    /\ callResult = "none"
    /\ client = [api_key |-> "", secret_key |-> "", host |-> "H"]
    /\ sent = <<>>
    /\ response = <<>>
    /\ outcome = <<>>

\* Connect that keeps the connection already held next to the new one.
Connect_KeepsOld ==
    /\ pc = "idle"
    /\ nConnects < MaxConnects
    /\ \E ok \in BOOLEAN :
        IF ok
        THEN /\ socket' = <<NewConn(nConnects + 1)>> \o socket
             /\ nConnects' = nConnects + 1
             /\ callResult' = "connect:Ok"
        ELSE /\ callResult' = "connect:ErrHandshake"
             /\ UNCHANGED <<socket, nConnects>>
    /\ UNCHANGED <<running, pc, result, chan, rxAlive, received, pushed,
                   afterStop, nArrived>>
    /\ UNCHANGED restvars

\* Connect that stores the half-open connection of a failed handshake.
Connect_StoresFailed ==
    /\ pc = "idle"
    /\ nConnects < MaxConnects
    /\ \E ok \in BOOLEAN :
        IF ok
        THEN /\ socket' = <<NewConn(nConnects + 1)>>
             /\ nConnects' = nConnects + 1
             /\ callResult' = "connect:Ok"
        ELSE /\ callResult' = "connect:ErrHandshake"
             /\ socket' = <<NewConn(0)>>
             /\ UNCHANGED nConnects
    /\ UNCHANGED <<running, pc, result, chan, rxAlive, received, pushed,
                   afterStop, nArrived>>
    /\ UNCHANGED restvars

\* connect: a successful handshake stores the answer in self.socket, a failed
\* one returns the handshake error and stores nothing.
Connect ==
    /\ pc = "idle"
    /\ nConnects < MaxConnects
    /\ \E ok \in BOOLEAN :
        IF ok
        THEN /\ socket' = <<NewConn(nConnects + 1)>>
             /\ nConnects' = nConnects + 1
             /\ callResult' = "connect:Ok"
        ELSE /\ callResult' = "connect:ErrHandshake"
             /\ UNCHANGED <<socket, nConnects>>
    /\ UNCHANGED <<running, pc, result, chan, rxAlive, received, pushed,
                   afterStop, nArrived>>
    /\ UNCHANGED restvars

\* Disconnect that unwraps the connection: with none held it panics.
Disconnect_Unwrap ==
    /\ pc = "idle"
    /\ IF socket # <<>>
       THEN \E ok \in BOOLEAN :
              IF ok
              THEN /\ socket' = <<[socket[1] EXCEPT !.closed = TRUE]>>
                   /\ callResult' = "disconnect:Ok"
              ELSE /\ callResult' = "disconnect:ErrClose"
                   /\ UNCHANGED socket
       ELSE /\ callResult' = "disconnect:Panic"
            /\ UNCHANGED socket
    /\ UNCHANGED <<running, pc, result, chan, rxAlive, received, pushed,
                   afterStop, nArrived, nConnects>>
    /\ UNCHANGED restvars

\* disconnect: closes the held connection (the close itself may fail); with
\* no connection it returns an error. self.socket is not reassigned.
Disconnect ==
    /\ pc = "idle"
    /\ IF socket # <<>>
       THEN \E ok \in BOOLEAN :
              IF ok
              THEN /\ socket' = <<[socket[1] EXCEPT !.closed = TRUE]>>
                   /\ callResult' = "disconnect:Ok"
              ELSE /\ callResult' = "disconnect:ErrClose"
                   /\ UNCHANGED socket
       ELSE /\ callResult' = "disconnect:ErrNoConnection"
            /\ UNCHANGED socket
    /\ UNCHANGED <<running, pc, result, chan, rxAlive, received, pushed,
                   afterStop, nArrived, nConnects>>
    /\ UNCHANGED restvars

\* The peer puts one more item on the held connection.
Arrive ==
    /\ socket # <<>>
    /\ ~socket[1].eof
    /\ nArrived < MaxFrames
    /\ \E item \in StreamItems :
         socket' = <<[socket[1] EXCEPT !.inbound = Append(@, item)]>>
    /\ nArrived' = nArrived + 1
    /\ UNCHANGED <<running, pc, result, chan, rxAlive, received, pushed,
                   afterStop, nConnects, callResult>>
    /\ UNCHANGED restvars

\* The peer's side of the transport ends: no further items will arrive.
PeerEnd ==
    /\ socket # <<>>
    /\ ~socket[1].eof
    /\ socket' = <<[socket[1] EXCEPT !.eof = TRUE]>>
    /\ UNCHANGED <<running, pc, result, chan, rxAlive, received, pushed,
                   afterStop, nArrived, nConnects, callResult>>
    /\ UNCHANGED restvars

\* Whoever shares the flag stores false into it.
StopRequest ==
    /\ running
    /\ running' = FALSE
    /\ UNCHANGED <<socket, pc, result, chan, rxAlive, received, pushed,
                   afterStop, nArrived, nConnects, callResult>>
    /\ UNCHANGED restvars

\* The event_loop task is not running: it has returned (or was not called),
\* it awaits an item that has not arrived, or it has yielded. The channel is
\* a local_channel, so the consumer shares the thread with the loop and runs
\* only then.
Suspended ==
    \/ pc \in {"idle", "yield"}
    \/ /\ pc = "next"
       /\ socket[1].inbound = <<>>
       /\ ~socket[1].eof

\* The consumer task takes the next event from the channel.
ConsumerRecv ==
    /\ Suspended
    /\ rxAlive
    /\ chan # <<>>
    /\ chan' = Tail(chan)
    /\ UNCHANGED <<socket, running, pc, result, rxAlive, received, pushed,
                   afterStop, nArrived, nConnects, callResult>>
    /\ UNCHANGED restvars

\* The consumer task ends and drops the Receiver.
DropReceiver ==
    /\ Suspended
    /\ rxAlive
    /\ rxAlive' = FALSE
    /\ UNCHANGED <<socket, running, pc, result, chan, received, pushed,
                   afterStop, nArrived, nConnects, callResult>>
    /\ UNCHANGED restvars

\* The caller invokes event_loop.
StartLoop ==
    /\ pc = "idle"
    /\ pc' = "check"
    /\ result' = NoResult
    /\ received' = <<>>
    /\ pushed' = <<>>
    /\ afterStop' = 0
    /\ UNCHANGED <<socket, running, chan, rxAlive, nArrived, nConnects,
                   callResult>>
    /\ UNCHANGED restvars

\* LoopExitOnFlag that drops the connection on the way out.
LoopExitOnFlag_TearsDown ==
    /\ pc = "check"
    /\ ~running
    /\ pc' = "idle"
    /\ result' = [status |-> "Ok", cause |-> "stopFlag"]
    /\ socket' = <<>>
    /\ UNCHANGED <<running, chan, rxAlive, received, pushed,
                   afterStop, nArrived, nConnects, callResult>>
    /\ UNCHANGED restvars

\* while running.load(Relaxed): false leaves the loop, which returns Ok(()).
LoopExitOnFlag ==
    /\ pc = "check"
    /\ ~running
    /\ pc' = "idle"
    /\ result' = [status |-> "Ok", cause |-> "stopFlag"]
    /\ UNCHANGED <<socket, running, chan, rxAlive, received, pushed,
                   afterStop, nArrived, nConnects, callResult>>
    /\ UNCHANGED restvars

\* LoopEnter with the load of the flag left out.
LoopEnter_IgnoresFlag ==
    /\ pc = "check"
    /\ pc' = "body"
    /\ UNCHANGED <<socket, running, result, chan, rxAlive, received, pushed,
                   afterStop, nArrived, nConnects, callResult>>
    /\ UNCHANGED restvars

\* while running.load(Relaxed): true enters the loop body.
LoopEnter ==
    /\ pc = "check"
    /\ running
    /\ pc' = "body"
    /\ UNCHANGED <<socket, running, result, chan, rxAlive, received, pushed,
                   afterStop, nArrived, nConnects, callResult>>
    /\ UNCHANGED restvars

\* LoopBody that returns an error when there is no connection.
LoopBody_ErrOnNone ==
    /\ pc = "body"
    /\ IF socket # <<>>
       THEN pc' = "next" /\ UNCHANGED result
       ELSE pc' = "idle" /\ result' = [status |-> "Err", cause |-> "noSocket"]
    /\ UNCHANGED <<socket, running, chan, rxAlive, received, pushed,
                   afterStop, nArrived, nConnects, callResult>>
    /\ UNCHANGED restvars

\* if let Some(..) = self.socket: with a connection the loop awaits the next
\* item; without one the body is empty and the loop goes straight back to the
\* flag, passing no yield point.
LoopBody ==
    /\ pc = "body"
    /\ pc' = IF socket # <<>> THEN "next" ELSE "check"
    /\ UNCHANGED <<socket, running, result, chan, rxAlive, received, pushed,
                   afterStop, nArrived, nConnects, callResult>>
    /\ UNCHANGED restvars

\* Bookkeeping shared by every completion of socket.next() with Some(item).
Take(item) ==
    /\ received' = Append(received, item)
    /\ afterStop' = IF running THEN afterStop ELSE afterStop + 1

\* TextEmpty with the is_empty test left out: the empty payload goes to
\* from_slice, which rejects it.
TextEmpty_Decoded ==
    /\ pc' = "idle"
    /\ result' = [status |-> "Err", cause |-> "decode"]
    /\ UNCHANGED <<chan, pushed>>

\* if msg.is_empty() { return Ok(()); }
TextEmpty ==
    /\ pc' = "idle"
    /\ result' = [status |-> "Ok", cause |-> "emptyText"]
    /\ UNCHANGED <<chan, pushed>>

\* TextUndecodable with the decode error swallowed: the loop goes on.
TextUndecodable_Skip ==
    /\ pc' = "yield"
    /\ UNCHANGED <<result, chan, pushed>>

\* let event: WE = from_slice(&msg)?; with a payload that does not decode
TextUndecodable ==
    /\ pc' = "idle"
    /\ result' = [status |-> "Err", cause |-> "decode"]
    /\ UNCHANGED <<chan, pushed>>

\* TextForward with the event put at the front of the channel's buffer.
TextForward_Prepend(event) ==
    IF ~rxAlive
    THEN /\ pc' = "idle"
         /\ result' = [status |-> "Err", cause |-> "channelSend"]
         /\ UNCHANGED <<chan, pushed>>
    ELSE /\ chan' = <<event>> \o chan
         /\ pushed' = <<event>> \o pushed
         /\ pc' = "yield"
         /\ UNCHANGED result

\* TextForward that goes back to the flag without yielding.
TextForward_NoYield(event) ==
    IF ~rxAlive
    THEN /\ pc' = "idle"
         /\ result' = [status |-> "Err", cause |-> "channelSend"]
         /\ UNCHANGED <<chan, pushed>>
    ELSE /\ chan' = Append(chan, event)
         /\ pushed' = Append(pushed, event)
         /\ pc' = "check"
         /\ UNCHANGED result

\* TextForward that drops the result of sender.send and goes on.
TextForward_IgnoresSendError(event) ==
    IF ~rxAlive
    THEN /\ pc' = "yield"
         /\ UNCHANGED <<result, chan, pushed>>
    ELSE /\ chan' = Append(chan, event)
         /\ pushed' = Append(pushed, event)
         /\ pc' = "yield"
         /\ UNCHANGED result

\* self.sender.send(event): fails once the Receiver is gone, else appends the
\* event to the channel's buffer.
TextForward(event) ==
    IF ~rxAlive
    THEN /\ pc' = "idle"
         /\ result' = [status |-> "Err", cause |-> "channelSend"]
         /\ UNCHANGED <<chan, pushed>>
    ELSE /\ chan' = Append(chan, event)
         /\ pushed' = Append(pushed, event)
         /\ pc' = "yield"
         /\ UNCHANGED result

\* Frame::Text(msg)
RecvText ==
    /\ pc = "next"
    /\ socket[1].inbound # <<>>
    /\ LET item == Head(socket[1].inbound)
           dec  == from_slice(item.data)
       IN  /\ item.type = "Text"
           /\ Take(item)
           /\ socket' = <<[socket[1] EXCEPT !.inbound = Tail(@)]>>
           /\ IF item.data = "" THEN TextEmpty
              ELSE IF ~dec.ok THEN TextUndecodable
              ELSE TextForward(dec.event)
    /\ UNCHANGED <<running, rxAlive, nArrived, nConnects, callResult>>
    /\ UNCHANGED restvars

\* PingAnswer that sends nothing and goes on.
PingAnswer_Silent(item) ==
    /\ socket' = <<[socket[1] EXCEPT !.inbound = Tail(@)]>>
    /\ pc' = "yield"
    /\ UNCHANGED result

\* socket.send(Message::Pong(..)).await? : the pong goes out on the held
\* connection, or the send fails and its error leaves the loop.
PingAnswer(item) ==
    \E sendOk \in BOOLEAN :
      IF sendOk
      THEN /\ socket' = <<[socket[1] EXCEPT
                             !.inbound = Tail(@),
                             !.out = Append(@, PongReply(item))]>>
           /\ pc' = "yield"
           /\ UNCHANGED result
      ELSE /\ socket' = <<[socket[1] EXCEPT !.inbound = Tail(@)]>>
           /\ pc' = "idle"
           /\ result' = [status |-> "Err", cause |-> "pongSend"]

\* Frame::Ping(_)
RecvPing ==
    /\ pc = "next"
    /\ socket[1].inbound # <<>>
    /\ LET item == Head(socket[1].inbound)
       IN  /\ item.type = "Ping"
           /\ Take(item)
           /\ PingAnswer(item)
    /\ UNCHANGED <<running, chan, rxAlive, pushed, nArrived, nConnects,
                   callResult>>
    /\ UNCHANGED restvars

\* RecvIgnored that answers the frame with a Pong, as if it were a Ping.
RecvIgnored_Answers ==
    /\ pc = "next"
    /\ socket[1].inbound # <<>>
    /\ LET item == Head(socket[1].inbound)
       IN  /\ item.type \in {"Pong", "Binary", "Continuation"}
           /\ Take(item)
           /\ socket' = <<[socket[1] EXCEPT
                             !.inbound = Tail(@),
                             !.out = Append(@, PongReply(item))]>>
    /\ pc' = "yield"
    /\ UNCHANGED <<running, result, chan, rxAlive, pushed, nArrived,
                   nConnects, callResult>>
    /\ UNCHANGED restvars

\* Frame::Pong(_) | Frame::Binary(_) | Frame::Continuation(_) => {}
RecvIgnored ==
    /\ pc = "next"
    /\ socket[1].inbound # <<>>
    /\ LET item == Head(socket[1].inbound)
       IN  /\ item.type \in {"Pong", "Binary", "Continuation"}
           /\ Take(item)
           /\ socket' = <<[socket[1] EXCEPT !.inbound = Tail(@)]>>
    /\ pc' = "yield"
    /\ UNCHANGED <<running, result, chan, rxAlive, pushed, nArrived,
                   nConnects, callResult>>
    /\ UNCHANGED restvars

\* RecvClose that treats the Close frame like an ignored frame.
RecvClose_Continue ==
    /\ pc = "next"
    /\ socket[1].inbound # <<>>
    /\ LET item == Head(socket[1].inbound)
       IN  /\ item.type = "Close"
           /\ Take(item)
           /\ socket' = <<[socket[1] EXCEPT !.inbound = Tail(@)]>>
    /\ pc' = "yield"
    /\ UNCHANGED <<running, result, chan, rxAlive, pushed, nArrived,
                   nConnects, callResult>>
    /\ UNCHANGED restvars

\* Frame::Close(e) => return Err(Error::Msg("Disconnected ..."))
RecvClose ==
    /\ pc = "next"
    /\ socket[1].inbound # <<>>
    /\ LET item == Head(socket[1].inbound)
       IN  /\ item.type = "Close"
           /\ Take(item)
           /\ socket' = <<[socket[1] EXCEPT !.inbound = Tail(@)]>>
    /\ pc' = "idle"
    /\ result' = [status |-> "Err", cause |-> "close"]
    /\ UNCHANGED <<running, chan, rxAlive, pushed, nArrived, nConnects,
                   callResult>>
    /\ UNCHANGED restvars

\* let message = message?; a read error on the connection leaves the loop.
RecvError ==
    /\ pc = "next"
    /\ socket[1].inbound # <<>>
    /\ LET item == Head(socket[1].inbound)
       IN  /\ item.type = "Error"
           /\ Take(item)
           /\ socket' = <<[socket[1] EXCEPT !.inbound = Tail(@)]>>
    /\ pc' = "idle"
    /\ result' = [status |-> "Err", cause |-> "read"]
    /\ UNCHANGED <<running, chan, rxAlive, pushed, nArrived, nConnects,
                   callResult>>
    /\ UNCHANGED restvars

\* RecvNone that treats the end of the stream as a graceful end.
RecvNone_Ok ==
    /\ pc = "next"
    /\ socket[1].inbound = <<>>
    /\ socket[1].eof
    /\ pc' = "idle"
    /\ result' = [status |-> "Ok", cause |-> "exhausted"]
    /\ UNCHANGED <<socket, running, chan, rxAlive, received, pushed,
                   afterStop, nArrived, nConnects, callResult>>
    /\ UNCHANGED restvars

\* socket.next() returns None: the stream is exhausted.
RecvNone ==
    /\ pc = "next"
    /\ socket[1].inbound = <<>>
    /\ socket[1].eof
    /\ pc' = "idle"
    /\ result' = [status |-> "Err", cause |-> "exhausted"]
    /\ UNCHANGED <<socket, running, chan, rxAlive, received, pushed,
                   afterStop, nArrived, nConnects, callResult>>
    /\ UNCHANGED restvars

\* Yield that resumes in the loop body, as a do-while loop would.
Yield_SkipsCheck ==
    /\ pc = "yield"
    /\ pc' = "body"
    /\ UNCHANGED <<socket, running, result, chan, rxAlive, received, pushed,
                   afterStop, nArrived, nConnects, callResult>>
    /\ UNCHANGED restvars

\* actix_rt::task::yield_now().await, then back to the while condition.
Yield ==
    /\ pc = "yield"
    /\ pc' = "check"
    /\ UNCHANGED <<socket, running, result, chan, rxAlive, received, pushed,
                   afterStop, nArrived, nConnects, callResult>>
    /\ UNCHANGED restvars

WsNext ==
    \/ Connect
    \/ Disconnect
    \/ Arrive
    \/ PeerEnd
    \/ StopRequest
    \/ ConsumerRecv
    \/ DropReceiver
    \/ StartLoop
    \/ LoopExitOnFlag
    \/ LoopEnter
    \/ LoopBody
    \/ RecvText
    \/ RecvPing
    \/ RecvIgnored
    \/ RecvClose
    \/ RecvError
    \/ RecvNone
    \/ Yield

\* The streaming engine on its own: the REST Client makes no call.
WsSpec == WsInit /\ [][WsNext]_vars
\* One step of the event_loop task.
LoopStep ==
    \/ LoopExitOnFlag
    \/ LoopEnter
    \/ LoopBody
    \/ RecvText
    \/ RecvPing
    \/ RecvIgnored
    \/ RecvClose
    \/ RecvError
    \/ RecvNone
    \/ Yield

\* ticker_websocket: web_socket.connect("public").await.unwrap() is the
\* program's only connect; a failed handshake ends the program.
ExampleConnect ==
    /\ callResult = "none"
    /\ Connect

\* ticker_websocket: event_loop is called once, after the connect succeeded.
ExampleLoop ==
    /\ callResult = "connect:Ok"
    /\ result = NoResult
    /\ StartLoop

\* The example program: one connect, one event_loop call, the consumer task
\* spawned next to it, and the peer.
ExampleNext ==
    \/ ExampleConnect
    \/ ExampleLoop
    \/ Arrive
    \/ PeerEnd
    \/ StopRequest
    \/ ConsumerRecv
    \/ DropReceiver
    \/ LoopExitOnFlag
    \/ LoopEnter
    \/ LoopBody
    \/ RecvText
    \/ RecvPing
    \/ RecvIgnored
    \/ RecvClose
    \/ RecvError
    \/ RecvNone
    \/ Yield

\* The example program under a fair cooperative scheduler: a task that can
\* run is run, and the consumer, runnable again and again, gets its turn.
WsFairSpec ==
    WsInit /\ [][ExampleNext]_vars /\ WF_vars(LoopStep) /\ SF_vars(ConsumerRecv)

\* The REST Client on its own.
RestSpec == RestInit /\ [][RestNext]_vars

\* ================================================================ claims
Last(seq) == seq[Len(seq)]
Front(seq) == SubSeq(seq, 1, Len(seq) - 1)

\* The step completes socket.next() with an item of one of the given types.
Takes(types) ==
    /\ pc = "next"
    /\ socket # <<>>
    /\ socket[1].inbound # <<>>
    /\ Head(socket[1].inbound).type \in types
    /\ received' = Append(received, Head(socket[1].inbound))

\* The step pushes no event and sends nothing on the connection.
NoEventNoReply ==
    /\ pushed' = pushed
    /\ chan' = chan
    /\ socket'[1].out = socket[1].out

\* The events from_slice yields for the non-empty text frames of a sequence
\* that decode, in order.
RECURSIVE Decodings(_)
Decodings(items) ==
    IF items = <<>> THEN <<>>
    ELSE LET f == Head(items)
         IN  (IF f.type = "Text" /\ f.data # "" /\ from_slice(f.data).ok
              THEN <<from_slice(f.data).event>>
              ELSE <<>>) \o Decodings(Tail(items))

\* ---- C1
\* C1 as stated: once the running flag has been cleared, event_loop takes no
\* further item from the connection.
C1_NoFrameOnceCleared == afterStop = 0

\* C1 amended: an item is taken only after the flag was read as set; once the
\* loop reads the flag as cleared it returns Ok at once, taking nothing,
\* pushing nothing and sending nothing, whatever is still queued; a receive
\* begun before the flag was cleared still completes, so at most one item is
\* taken after the clearing.
C1_StopAtCheck ==
    /\ [](afterStop <= 1)
    /\ [](result.cause = "stopFlag" => result.status = "Ok")
    /\ [][(received' # received /\ received' # <<>>) => pc = "next"]_vars
    /\ [][(pc = "check" /\ ~running /\ pc' # pc)
            => /\ pc' = "idle"
               /\ result' = [status |-> "Ok", cause |-> "stopFlag"]
               /\ received' = received
               /\ pushed' = pushed
               /\ chan' = chan
               /\ socket' = socket]_vars

\* The loop has returned Ok on the cleared flag, after handling an item, with
\* an item still queued on the connection.
C1_Witness ==
    /\ ~running
    /\ pc = "idle"
    /\ result = [status |-> "Ok", cause |-> "stopFlag"]
    /\ received # <<>>
    /\ socket # <<>>
    /\ socket[1].inbound # <<>>

\* ---- C2
\* C2 as stated: the events pushed by event_loop are exactly the decodings of
\* the non-empty well-formed text frames it received, in order.
C2_PushedEqualsDecodings == pushed = Decodings(received)

\* C2 amended: the events pushed are exactly the decodings, in order, of the
\* non-empty well-formed text frames received, except for a frame whose push
\* failed because the Receiver was gone: that frame yields no event and ends
\* the loop with an error.
C2_PushedEqualsDecodingsSent ==
    pushed = Decodings(IF result.cause = "channelSend"
                       THEN Front(received)
                       ELSE received)

\* Two different text frames were received and both events were pushed.
C2_Witness ==
    /\ Len(received) = 2
    /\ Len(pushed) = 2
    /\ pushed[1] # pushed[2]

\* ---- C3
\* C3 as stated: every Ping taken yields exactly one Pong on the same
\* connection, pushes no event, and the loop goes on to its yield point.
C3_PingAlwaysPonged ==
    [][Takes({"Ping"})
         => /\ Len(socket'[1].out) = Len(socket[1].out) + 1
            /\ Last(socket'[1].out).type = "Pong"
            /\ Front(socket'[1].out) = socket[1].out
            /\ socket'[1].id = socket[1].id
            /\ pc' = "yield"
            /\ pushed' = pushed
            /\ chan' = chan]_vars

\* C3 amended: a Ping whose pong is sent yields exactly one Pong on the same
\* connection and does not terminate the loop, which goes on to its next
\* iteration; a Ping whose pong cannot be sent yields no Pong and ends the
\* loop with the send error. No event is pushed in either case.
C3_PingPongedOrSendError ==
    [][Takes({"Ping"})
         => /\ socket'[1].id = socket[1].id
            /\ pushed' = pushed
            /\ chan' = chan
            /\ \/ /\ Len(socket'[1].out) = Len(socket[1].out) + 1
                  /\ Last(socket'[1].out).type = "Pong"
                  /\ Front(socket'[1].out) = socket[1].out
                  /\ pc' = "yield"
                  /\ result' = result
               \/ /\ socket'[1].out = socket[1].out
                  /\ pc' = "idle"
                  /\ result' = [status |-> "Err", cause |-> "pongSend"]]_vars

\* A Ping was answered with a Pong and the loop then took a further item.
C3_Witness ==
    /\ Len(received) = 2
    /\ received[1].type = "Ping"
    /\ socket # <<>>
    /\ Len(socket[1].out) = 1
    /\ socket[1].out[1].type = "Pong"

\* ---- C4
\* C4: a Close frame ends event_loop with an error: it is the last item the
\* call takes, taking it pushes no event and sends nothing, and the connection
\* held does not change (a new handshake happens only in a connect call made
\* while the loop is not running).
C4_CloseIsFatal ==
    /\ [](\A i \in 1..Len(received) :
            received[i].type = "Close"
              => /\ i = Len(received)
                 /\ pc = "idle"
                 /\ result = [status |-> "Err", cause |-> "close"])
    /\ [][Takes({"Close"})
            => /\ NoEventNoReply
               /\ socket'[1].id = socket[1].id
               /\ nConnects' = nConnects]_vars
    /\ [][nConnects' # nConnects => pc = "idle"]_vars

\* The loop returned the close error while a later item is still queued.
C4_Witness ==
    /\ received # <<>>
    /\ Last(received).type = "Close"
    /\ result = [status |-> "Err", cause |-> "close"]
    /\ socket # <<>>
    /\ socket[1].inbound # <<>>

\* ---- C5
\* C5: a non-empty text frame that does not decode ends event_loop with the
\* decode error: it is the last item the call takes, and taking it leaves the
\* events pushed so far and the channel as they were.
C5_DecodeFailureIsFatal ==
    /\ [](\A i \in 1..Len(received) :
            ( /\ received[i].type = "Text"
              /\ received[i].data # ""
              /\ ~from_slice(received[i].data).ok )
              => /\ i = Len(received)
                 /\ pc = "idle"
                 /\ result = [status |-> "Err", cause |-> "decode"])
    /\ [][( /\ Takes({"Text"})
            /\ Head(socket[1].inbound).data # ""
            /\ ~from_slice(Head(socket[1].inbound).data).ok )
            => NoEventNoReply]_vars

\* An event was pushed for an earlier frame, then a malformed frame ended the
\* loop with the decode error.
C5_Witness ==
    /\ Len(received) = 2
    /\ Len(pushed) = 1
    /\ result = [status |-> "Err", cause |-> "decode"]

\* ---- C6
\* C6: an empty text frame ends event_loop with Ok: it is the last item the
\* call takes and taking it pushes no event and sends nothing.
C6_EmptyTextIsGraceful ==
    /\ [](\A i \in 1..Len(received) :
            (received[i].type = "Text" /\ received[i].data = "")
              => /\ i = Len(received)
                 /\ pc = "idle"
                 /\ result = [status |-> "Ok", cause |-> "emptyText"])
    /\ [][(Takes({"Text"}) /\ Head(socket[1].inbound).data = "")
            => NoEventNoReply]_vars

\* The loop returned Ok on an empty text frame while a later item is queued.
C6_Witness ==
    /\ received # <<>>
    /\ Last(received) = [type |-> "Text", data |-> ""]
    /\ result = [status |-> "Ok", cause |-> "emptyText"]
    /\ socket # <<>>
    /\ socket[1].inbound # <<>>

\* ---- C7
\* The kinds of Result<String> a REST call can return.
OutcomeKinds ==
    {"Ok", "InternalServerError", "ServiceUnavailable", "Unauthorized",
     "InvalidPrice", "InvalidListenKey", "BinanceError", "Msg",
     "ReqwestError", "Utf8Error", "InvalidHeaderValue"}

\* C7: handler classifies every status/body pair into one defined outcome
\* and never panics: 200 gives the body or a read/UTF-8 error, 500, 503 and
\* 401 their own errors, 400 a content error or, for a body that is no error
\* object, the parse error, and any other status the generic message error
\* naming that status.
C7_HandlerTotal ==
    (response # <<>> /\ outcome # <<>>)
      => LET st == response[1].status
             bk == response[1].body.kind
             k  == outcome[1].kind
         IN  /\ k \in OutcomeKinds
             /\ st = 200 => k \in {"Ok", "Utf8Error", "ReqwestError"}
             /\ st = 500 => k = "InternalServerError"
             /\ st = 503 => k = "ServiceUnavailable"
             /\ st = 401 => k = "Unauthorized"
             /\ (st = 400 /\ bk = "errjson")
                   => k \in {"InvalidPrice", "InvalidListenKey", "BinanceError"}
             /\ (st = 400 /\ bk # "errjson") => k = "ReqwestError"
             /\ st \notin {200, 400, 401, 500, 503}
                   => (k = "Msg" /\ outcome[1].status = st)

\* A 400 response whose body is not an error object was classified.
C7_Witness ==
    /\ response # <<>>
    /\ outcome # <<>>
    /\ response[1].status = 400
    /\ response[1].body.kind = "nonutf8"
    /\ outcome[1].kind = "ReqwestError"

\* ---- C8
\* C8: for a 400 response with a {code, msg} body, -1013 with exactly the
\* invalid-price message gives InvalidPrice, -1125 with any message gives
\* InvalidListenKey carrying that message, and every other pair gives
\* BinanceError carrying the code and the message unchanged.
C8_ContentErrorMapping ==
    ( /\ response # <<>>
      /\ outcome # <<>>
      /\ response[1].status = 400
      /\ response[1].body.kind = "errjson" )
      => LET b == response[1].body
             o == outcome[1]
         IN  IF b.code = -1013 /\ b.msg = "Invalid price."
             THEN o.kind = "InvalidPrice"
             ELSE IF b.code = -1125
             THEN o.kind = "InvalidListenKey" /\ o.msg = b.msg
             ELSE o.kind = "BinanceError" /\ o.code = b.code /\ o.msg = b.msg

\* Code -1013 with another message was classified as the generic error.
C8_Witness ==
    /\ response # <<>>
    /\ outcome # <<>>
    /\ response[1].status = 400
    /\ response[1].body.kind = "errjson"
    /\ response[1].body.code = -1013
    /\ response[1].body.msg # "Invalid price."
    /\ outcome[1].kind = "BinanceError"
    /\ outcome[1].code = -1013

\* ---- C9
\* C9 as stated: every response with a status from 200 through 299 (and a
\* body that can be read as UTF-8 text) is classified as success and its body
\* is what the call returns.
C9_Any2xxIsSuccess ==
    ( /\ response # <<>>
      /\ outcome # <<>>
      /\ response[1].status >= 200
      /\ response[1].status <= 299
      /\ response[1].body.kind \in {"text", "errjson"} )
      => (outcome[1].kind = "Ok" /\ outcome[1].body = response[1].body)

\* ---- C10
SignedOps == {"get_signed", "post_signed", "delete_signed"}
UnsignedOps == {"get", "post", "put", "delete"}
HasSignatureParam(req) == req.url.signature # NoSignature
HasApiKeyHeader(req) == \E h \in req.headers : h[1] = "x-mbx-apikey"

C11_SigningDeterministic ==
    /\ []((sent # <<>> /\ sent[1].op \in SignedOps)
            => sent[1].url =
                 [host |-> client.host,
                  endpoint |-> sent[1].url.endpoint,
                  query |-> TRUE,
                  request |-> sent[1].url.request,
                  signature |-> <<"hex", "hmac-sha256", sent[1].url.request,
                                  client.secret_key>>])
    /\ [][( /\ sent # <<>>
            /\ sent' # <<>>
            /\ sent[1].op \in SignedOps
            /\ sent'[1].op \in SignedOps
            /\ sent'[1].url.host = sent[1].url.host
            /\ sent'[1].url.endpoint = sent[1].url.endpoint
            /\ sent'[1].url.request = sent[1].url.request )
            => sent'[1].url = sent[1].url]_vars

\* A signed call with a non-empty request string and secret has been answered
\* (so that the next signed call starts from a client that has seen traffic).
C11_Witness ==
    /\ sent # <<>>
    /\ sent[1].op \in SignedOps
    /\ sent[1].url.request = "symbol=A"
    /\ client.secret_key = "s1"
    /\ response # <<>>

\* ---- C12
\* C12 as stated: the connection field is None before any connect and None
\* again once disconnect has returned Ok.
C12_NoneAfterDisconnect ==
    /\ nConnects = 0 => socket = <<>>
    /\ callResult = "disconnect:Ok" => socket = <<>>

\* ---- C13
\* C13: the session never holds more than one connection, and a successful
\* connect leaves exactly the freshly established connection in the field,
\* whether or not one was held before.
C13_AtMostOneConnection ==
    /\ [](Len(socket) <= 1)
    /\ [](nConnects = 0 <=> socket = <<>>)
    /\ [][nConnects' # nConnects
            => /\ callResult' = "connect:Ok"
               /\ socket' = <<NewConn(nConnects')>>]_vars

\* A second successful connect was made on a session that held a connection.
C13_Witness ==
    /\ nConnects = 2
    /\ callResult = "connect:Ok"
    /\ socket = <<NewConn(2)>>

\* ---- C14
\* C14: disconnect on a session with no connection returns an error value and
\* changes nothing else; on a session with a connection it closes the held
\* connection (or returns the error of the close), and it never panics.
C14_DisconnectNoConnection ==
    /\ [](callResult \in {"none", "connect:Ok", "connect:ErrHandshake",
                          "disconnect:Ok", "disconnect:ErrClose",
                          "disconnect:ErrNoConnection"})
    /\ [](callResult = "disconnect:ErrNoConnection" => socket = <<>>)
    /\ [][(callResult' # callResult
             /\ callResult' = "disconnect:ErrNoConnection")
            => /\ socket = <<>>
               /\ UNCHANGED <<socket, running, pc, result, chan, rxAlive,
                              received, pushed, nConnects>>]_vars
    /\ [][(callResult' # callResult /\ callResult' = "disconnect:Ok")
            => /\ socket # <<>>
               /\ socket' = <<[socket[1] EXCEPT !.closed = TRUE]>>]_vars
    /\ [][(callResult' # callResult /\ callResult' = "disconnect:ErrClose")
            => socket # <<>>]_vars

\* disconnect was called on a session that never connected.
C14_Witness ==
    /\ callResult = "disconnect:ErrNoConnection"
    /\ socket = <<>>
    /\ nConnects = 0

\* ---- C15
\* C15: a connect whose handshake fails returns the handshake error and leaves
\* the connection field as it was; a session that never connected stays
\* without a connection.
C15_FailedConnectKeepsState ==
    /\ []((callResult = "connect:ErrHandshake" /\ nConnects = 0)
            => socket = <<>>)
    /\ [][(callResult' # callResult /\ callResult' = "connect:ErrHandshake")
            => /\ socket' = socket
               /\ nConnects' = nConnects]_vars

\* A handshake failed on a session without a connection.
C15_Witness ==
    /\ callResult = "connect:ErrHandshake"
    /\ nConnects = 0
    /\ socket = <<>>

\* ---- C16
\* C16 as stated: the Pong sent for a Ping carries the payload of that Ping.
C16_PongEchoesPing ==
    [][(Takes({"Ping"}) /\ Len(socket'[1].out) = Len(socket[1].out) + 1)
         => Last(socket'[1].out).data = Head(socket[1].inbound).data]_vars

\* ---- C17
\* C17 as stated: once event_loop has returned, the connection is torn down:
\* the field is None or the connection is closed.
C17_TornDownAfterLoop ==
    (pc = "idle" /\ result.status # "None")
      => (socket = <<>> \/ socket[1].closed)

\* C17 amended: event_loop never tears the connection down: while it runs and
\* when it returns, for whatever reason, the field holds the same connection
\* as before, neither dropped nor closed; tearing down is left to disconnect.
C17_LoopKeepsConnection ==
    [][pc # "idle"
         => /\ Len(socket') = Len(socket)
            /\ socket # <<>>
                 => /\ socket'[1].id = socket[1].id
                    /\ socket'[1].closed = socket[1].closed]_vars

\* The loop has returned an error and the connection is still held and open.
C17_Witness ==
    /\ pc = "idle"
    /\ result.status = "Err"
    /\ socket # <<>>
    /\ ~socket[1].closed

\* ---- C18
\* C18: clearing the flag does not interrupt a pending read: the loop leaves
\* its receive only with an item or with the end of the stream; the item it
\* takes after the clearing is handled like any other; the loop then stops
\* at its next look at the flag, so at most one item is taken after the
\* clearing.
C18_PendingReadNotInterrupted ==
    /\ [](afterStop <= 1)
    /\ [](afterStop = 1 => pc \in {"yield", "check", "idle"})
    /\ [][(pc = "next" /\ pc' # "next")
            => \/ /\ socket[1].inbound # <<>>
                  /\ received' = Append(received, Head(socket[1].inbound))
               \/ /\ socket[1].inbound = <<>>
                  /\ socket[1].eof
                  /\ result' = [status |-> "Err", cause |-> "exhausted"]]_vars
    /\ [][(pc = "next" /\ ~running /\ Takes({"Text"})
             /\ from_slice(Head(socket[1].inbound).data).ok /\ rxAlive)
            => pushed' = Append(pushed,
                                from_slice(Head(socket[1].inbound).data).event)]_vars

\* The flag was cleared during the receive, the item that then arrived was
\* decoded and pushed, and the loop returned Ok on the flag.
C18_Witness ==
    /\ afterStop = 1
    /\ Len(received) = 1
    /\ Len(pushed) = 1
    /\ result = [status |-> "Ok", cause |-> "stopFlag"]

\* ---- C19
\* C19: with no connection, event_loop takes no item, pushes no event, never
\* comes to its await of the next item or to its yield point, and returns
\* only when it reads the flag as cleared, and then with Ok.
C19_SpinsWithoutConnection ==
    [][(pc # "idle" /\ socket = <<>>)
         => /\ received' = received
            /\ pushed' = pushed
            /\ chan' = chan
            /\ socket' = <<>>
            /\ pc' \in {"check", "body", "idle"}
            /\ pc' = "idle"
                 => /\ ~running
                    /\ result' = [status |-> "Ok", cause |-> "stopFlag"]]_vars

\* The loop is inside its body with the flag set and no connection.
C19_Witness ==
    /\ pc = "body"
    /\ running
    /\ socket = <<>>

\* ---- C20
\* C20: handling an item either ends the loop or brings it to its yield
\* point, from which it goes back to the flag, so a yield lies between any two
\* receives; and under fair scheduling, with the consumer alive, every event
\* waiting in the channel is eventually received.
C20_YieldsAndDelivers ==
    /\ [][(received' # received /\ received' # <<>>)
            => pc' \in {"yield", "idle"}]_vars
    /\ [][(pc = "yield" /\ pc' # pc) => pc' = "check"]_vars
    /\ [][(pc' = "next" /\ pc # "next") => pc = "body"]_vars
    /\ (rxAlive /\ chan # <<>>) ~> (chan = <<>> \/ ~rxAlive)

\* The loop is at its yield point with an event waiting for the consumer.
C20_Witness ==
    /\ pc = "yield"
    /\ rxAlive
    /\ chan # <<>>
    /\ pushed # <<>>

\* ---- C21
\* C21: when socket.next() yields None, event_loop returns an error, taking
\* no item and pushing no event; it never returns Ok for an exhausted stream,
\* whereas the empty text frame gives Ok.
C21_ExhaustedIsError ==
    /\ [](result.cause = "exhausted" => result.status = "Err")
    /\ [](result.cause = "emptyText" => result.status = "Ok")
    /\ [][( /\ pc = "next"
            /\ socket[1].inbound = <<>>
            /\ socket[1].eof
            /\ pc' # pc )
            => /\ pc' = "idle"
               /\ result' = [status |-> "Err", cause |-> "exhausted"]
               /\ received' = received
               /\ NoEventNoReply]_vars

\* The stream ended after an item had been handled and the loop returned the
\* exhausted-stream error.
C21_Witness ==
    /\ result = [status |-> "Err", cause |-> "exhausted"]
    /\ pc = "idle"
    /\ received # <<>>
    /\ socket # <<>>
    /\ socket[1].eof

\* ---- C22
\* C22: when the push of a decoded event fails because the Receiver is gone,
\* event_loop returns an error at once: the frame is the last item the call
\* takes, and neither the channel nor the events counted as pushed change.
C22_ChannelSendFailureIsFatal ==
    /\ [](result.cause = "channelSend"
            => /\ result.status = "Err"
               /\ pc = "idle"
               /\ ~rxAlive
               /\ received # <<>>
               /\ Last(received).type = "Text"
               /\ from_slice(Last(received).data).ok
               /\ pushed = Decodings(Front(received)))
    /\ [][( /\ Takes({"Text"})
            /\ from_slice(Head(socket[1].inbound).data).ok
            /\ ~rxAlive )
            => /\ pc' = "idle"
               /\ result' = [status |-> "Err", cause |-> "channelSend"]
               /\ NoEventNoReply]_vars

\* The push failed with the Receiver gone and a later item is still queued.
C22_Witness ==
    /\ result = [status |-> "Err", cause |-> "channelSend"]
    /\ ~rxAlive
    /\ socket # <<>>
    /\ socket[1].inbound # <<>>

\* ---- C23
\* C23 as stated: every 4xx response (other than 401, which has its own kind)
\* with a parseable {code, msg} body is classified as a content error carrying
\* that code and message, or as one of the two dedicated kinds.
C23_Any4xxIsDomainError ==
    ( /\ response # <<>>
      /\ outcome # <<>>
      /\ response[1].status >= 400
      /\ response[1].status <= 499
      /\ response[1].status # 401
      /\ response[1].body.kind = "errjson" )
      => outcome[1].kind \in {"BinanceError", "InvalidPrice", "InvalidListenKey"}

\* ---- C24
\* C24: taking a Pong, Binary or Continuation frame only removes it from the
\* connection: no event is pushed, nothing is sent, the loop does not return
\* and goes on to its yield point.
C24_OtherFramesIgnored ==
    [][Takes({"Pong", "Binary", "Continuation"})
         => /\ NoEventNoReply
            /\ socket' = <<[socket[1] EXCEPT !.inbound = Tail(@)]>>
            /\ result' = result
            /\ pc' = "yield"]_vars

\* Two ignored frames were taken in a row; nothing was pushed or sent.
C24_Witness ==
    /\ Len(received) = 2
    /\ received[1].type = "Binary"
    /\ received[2].type = "Continuation"
    /\ pushed = <<>>
    /\ socket # <<>>
    /\ socket[1].out = <<>>
    /\ pc = "yield"

====
